---- MODULE Spec2Model ----
(***************************************************************************)
(* Compute Sales: the record extractor, the catalogue and sales            *)
(* validators and the reconciler of                                        *)
(*   src/TC1/ejercicio2/src/computeSales.py   (suffix _TC1)                *)
(*   src/src/compute_sales.py                 (suffix _src)                *)
(* The two copies differ in their synonym lists, in the wrapper keys, in   *)
(* the flat-mapping fallback of build_catalogue and in the text of the     *)
(* error messages; what they share is defined once.                        *)
(***************************************************************************)
EXTENDS Integers, Sequences, FiniteSets, TLC

VARIABLES impl, pc, raw_products, raw_sales, cat_records, catalogue,
          cat_errors, sales_records, sales, sales_errors, receipt, total,
          calc_errors

vars == <<impl, pc, raw_products, raw_sales, cat_records, catalogue,
          cat_errors, sales_records, sales, sales_errors, receipt, total,
          calc_errors>>

(***************************************************************************)
(* JSON-decoded values (what json.load returns), tagged by Python type.    *)
(* A dict is the sequence of its (key, value) items in insertion order,    *)
(* with distinct keys; json.load only makes string keys.                   *)
(***************************************************************************)
Null == <<"null", 0>>
Bool(b) == <<"bool", b>>
Num(n) == <<"num", n>>
Str(s) == <<"str", s>>
List(l) == <<"list", l>>
Dict(items) == <<"dict", items>>

IsStr(v) == v[1] = "str"
IsList(v) == v[1] = "list"
IsDict(v) == v[1] = "dict"

Keys(d) == {d[2][i][1] : i \in 1..Len(d[2])}
HasKey(d, k) == k \in Keys(d)
Get(d, k) == d[2][CHOOSE i \in 1..Len(d[2]) : d[2][i][1] = k][2]

(***************************************************************************)
(* Python floats: a finite value (integer-valued here) or nan; None is     *)
(* the Optional's other case.  Comparisons with nan are False.             *)
(***************************************************************************)
F(n) == <<"f", n>>
NaN == <<"nan", 0>>
None == <<"none", 0>>

IsNaN(x) == x[1] = "nan"
Lt0(x) == x[1] = "f" /\ x[2] < 0
Le0_strict(x) == x[1] = "f" /\ x[2] < 0
Le0(x) == x[1] = "f" /\ x[2] <= 0
Mul(a, b) == IF IsNaN(a) \/ IsNaN(b) THEN NaN ELSE F(a[2] * b[2])
Add(a, b) == IF IsNaN(a) \/ IsNaN(b) THEN NaN ELSE F(a[2] + b[2])

(***************************************************************************)
(* str.strip(): the text without its leading and trailing whitespace.      *)
(* Texts is the alphabet of trimmed texts the inputs are made of; a text   *)
(* is one of them padded by at most one blank on each side.                *)
(***************************************************************************)
Texts == {"", "A", "B", "C", "Pen", "Ink", "bad", "nan", "price", "name",
          "0", "1", "2", "-1"}
Blanks == {"", " "}
Padded(c) == {l \o c \o r : l \in Blanks, r \in Blanks}
AllTexts == UNION {Padded(c) : c \in Texts}
Stripped == [s \in AllTexts |-> CHOOSE c \in Texts : s \in Padded(c)]
strip(s) == IF s \in AllTexts THEN Stripped[s] ELSE s

(***************************************************************************)
(* float(str): the text is stripped, then read as a decimal literal or as  *)
(* nan; anything else raises ValueError.                                   *)
(***************************************************************************)
Literals == {ToString(n) : n \in -9..9}
Parsed == [t \in Literals |-> CHOOSE n \in -9..9 : ToString(n) = t]
float_of_str(s) ==
    LET t == strip(s)
    IN  IF t \in Literals THEN F(Parsed[t])
        ELSE IF t = "nan" THEN NaN ELSE None

\* to_float: float(value), None on TypeError (None, list, dict) or ValueError.
to_float(value) ==
    CASE value[1] = "num" -> F(value[2])
      [] value[1] = "bool" -> F(IF value[2] THEN 1 ELSE 0)
      [] value[1] = "str" -> float_of_str(value[2])
      [] OTHER -> None

first_present_last(data, keys) ==
    LET hits == {i \in 1..Len(keys) : HasKey(data, keys[i])}
    IN  IF hits = {} THEN Null
        ELSE Get(data, keys[CHOOSE i \in hits : \A j \in hits : j <= i])

\* first_present: the value of the first key of `keys` that is in `data`.
first_present(data, keys) ==
    LET hits == {i \in 1..Len(keys) : HasKey(data, keys[i])}
    IN  IF hits = {} THEN Null
        ELSE Get(data, keys[CHOOSE i \in hits : \A j \in hits : i <= j])

(***************************************************************************)
(* A Dict[str, float] (the catalogue): a function on its keys.  An error   *)
(* message: its "[Catalogue n]" / "[Sales n]" prefix (idx 0: none), which  *)
(* message it is, and the values formatted into it.                        *)
(***************************************************************************)
EmptyDict == [k \in {} |-> None]
Put_setdefault(d, k, v) ==
    [x \in DOMAIN d \cup {k} |-> IF x \in DOMAIN d THEN d[x] ELSE v]
Put(d, k, v) == [x \in DOMAIN d \cup {k} |-> IF x = k THEN v ELSE d[x]]
Err(stage, idx, kind, ref) ==
    [stage |-> stage, idx |-> idx, kind |-> kind, ref |-> ref]
SaleLine(product, quantity) == [product |-> product, quantity |-> quantity]
Blank(product) == ~IsStr(product) \/ strip(product[2]) = ""

(***************************************************************************)
(* src/TC1/ejercicio2/src/computeSales.py                                  *)
(***************************************************************************)
PRODUCT_KEYS_TC1 ==
    <<"product", "Product", "title", "Title", "name", "Name", "item", "Item">>
PRICE_KEYS_TC1 ==
    <<"price", "Price", "cost", "Cost", "unit_price", "unitPrice", "UnitPrice">>
QTY_KEYS_TC1 ==
    <<"quantity", "Quantity", "qty", "Qty", "amount", "Amount", "units",
      "Units">>
candidate_keys_TC1 ==
    <<"items", "Items", "records", "Records", "sales", "Sales", "data", "Data">>

iter_records_nodict(obj) ==
    IF IsList(obj) THEN obj[2]
    ELSE IF IsDict(obj)
    THEN LET hits == {i \in 1..Len(candidate_keys_TC1) :
                        /\ HasKey(obj, candidate_keys_TC1[i])
                        /\ IsList(Get(obj, candidate_keys_TC1[i]))}
         IN  IF hits # {}
             THEN Get(obj, candidate_keys_TC1[
                      CHOOSE i \in hits : \A j \in hits : i <= j])[2]
             ELSE <<>>
    ELSE <<>>

\* iter_records, materialised: the sequence of the values the generator yields.
iter_records_TC1(obj) ==
    IF IsList(obj) THEN obj[2]
    ELSE IF IsDict(obj)
    THEN LET hits == {i \in 1..Len(candidate_keys_TC1) :
                        /\ HasKey(obj, candidate_keys_TC1[i])
                        /\ IsList(Get(obj, candidate_keys_TC1[i]))}
         IN  IF hits # {}
             THEN Get(obj, candidate_keys_TC1[
                      CHOOSE i \in hits : \A j \in hits : i <= j])[2]
             ELSE <<obj>>
    ELSE <<>>

\* The for loop of build_catalogue over the records from index idx on.
RECURSIVE catalogue_loop_TC1(_, _, _, _)
catalogue_loop_TC1(records, idx, cat, errors) ==
    IF idx > Len(records) THEN [catalogue |-> cat, errors |-> errors]
    ELSE
    LET record == records[idx]
        product == first_present(record, PRODUCT_KEYS_TC1)
        price == first_present(record, PRICE_KEYS_TC1)
        price_val == to_float(price)
    IN  IF ~IsDict(record)
        THEN catalogue_loop_TC1(records, idx + 1, cat,
                 Append(errors, Err("Catalogue", idx, "record", <<>>)))
        ELSE IF Blank(product)
        THEN catalogue_loop_TC1(records, idx + 1, cat,
                 Append(errors, Err("Catalogue", idx, "product", <<product>>)))
        ELSE IF price_val = None \/ Lt0(price_val)
        THEN catalogue_loop_TC1(records, idx + 1, cat,
                 Append(errors,
                        Err("Catalogue", idx, "price", <<product, price>>)))
        ELSE catalogue_loop_TC1(records, idx + 1,
                 Put(cat, strip(product[2]), price_val), errors)

\* The alternate case {"A": 10, "B": 5}: the loop over raw.items() from item i.
RECURSIVE flat_items_TC1(_, _, _)
flat_items_TC1(items, i, cat) ==
    IF i > Len(items) THEN cat
    ELSE
    LET key == items[i][1]
        price_val == to_float(items[i][2])
    IN  IF price_val = None \/ Lt0(price_val)
        THEN flat_items_TC1(items, i + 1, cat)
        ELSE flat_items_TC1(items, i + 1, Put(cat, strip(key), price_val))

build_catalogue_noterminal(raw) ==
    LET pass == catalogue_loop_TC1(iter_records_TC1(raw), 1, EmptyDict, <<>>)
        cat == IF DOMAIN pass.catalogue = {} /\ IsDict(raw)
               THEN flat_items_TC1(raw[2], 1, pass.catalogue)
               ELSE pass.catalogue
    IN  [catalogue |-> cat, errors |-> pass.errors]

build_catalogue_TC1(raw) ==
    LET pass == catalogue_loop_TC1(iter_records_TC1(raw), 1, EmptyDict, <<>>)
        cat == IF DOMAIN pass.catalogue = {} /\ IsDict(raw)
               THEN flat_items_TC1(raw[2], 1, pass.catalogue)
               ELSE pass.catalogue
    IN  [catalogue |-> cat,
         errors |-> IF DOMAIN cat = {}
                    THEN Append(pass.errors, Err("", 0, "no_catalogue", <<>>))
                    ELSE pass.errors]

RECURSIVE sales_loop_TC1(_, _, _, _)
sales_loop_TC1(records, idx, lines, errors) ==
    IF idx > Len(records) THEN [lines |-> lines, errors |-> errors]
    ELSE
    LET record == records[idx]
        product == first_present(record, PRODUCT_KEYS_TC1)
        qty == first_present(record, QTY_KEYS_TC1)
        qty_val == to_float(qty)
    IN  IF ~IsDict(record)
        THEN sales_loop_TC1(records, idx + 1, lines,
                 Append(errors, Err("Sales", idx, "record", <<>>)))
        ELSE IF Blank(product)
        THEN sales_loop_TC1(records, idx + 1, lines,
                 Append(errors, Err("Sales", idx, "product", <<product>>)))
        ELSE IF qty_val = None
        THEN sales_loop_TC1(records, idx + 1, lines,
                 Append(errors, Err("Sales", idx, "quantity", <<product, qty>>)))
        ELSE sales_loop_TC1(records, idx + 1,
                 Append(lines, SaleLine(strip(product[2]), qty_val)), errors)

build_sales_positive(raw) ==
    LET pass == sales_loop_TC1(iter_records_TC1(raw), 1, <<>>, <<>>)
        kept == SelectSeq(pass.lines, LAMBDA l : ~Le0(l.quantity))
    IN  [lines |-> kept,
         errors |-> IF kept = <<>>
                    THEN Append(pass.errors, Err("", 0, "no_sales", <<>>))
                    ELSE pass.errors]

build_sales_TC1(raw) ==
    LET pass == sales_loop_TC1(iter_records_TC1(raw), 1, <<>>, <<>>)
    IN  [lines |-> pass.lines,
         errors |-> IF pass.lines = <<>>
                    THEN Append(pass.errors, Err("", 0, "no_sales", <<>>))
                    ELSE pass.errors]

RECURSIVE receipt_loop_TC1(_, _, _, _, _, _)
receipt_loop_TC1(cat, lines, idx, rcpt, tot, errors) ==
    IF idx > Len(lines)
    THEN [receipt |-> rcpt, total |-> tot, errors |-> errors]
    ELSE
    LET sale == lines[idx]
    IN  IF Le0(sale.quantity)
        THEN receipt_loop_TC1(cat, lines, idx + 1, rcpt, tot,
                 Append(errors, Err("Sales", idx, "non_positive",
                                    <<Str(sale.product), sale.quantity>>)))
        ELSE IF sale.product \notin DOMAIN cat
        THEN receipt_loop_TC1(cat, lines, idx + 1, rcpt, tot,
                 Append(errors, Err("Sales", idx, "not_in_catalogue",
                                    <<Str(sale.product)>>)))
        ELSE LET unit_price == cat[sale.product]
                 subtotal == Mul(unit_price, sale.quantity)
             IN  receipt_loop_TC1(cat, lines, idx + 1,
                     Append(rcpt, <<sale.product, sale.quantity, unit_price,
                                    subtotal>>),
                     Add(tot, subtotal), errors)

compute_receipt_assign(cat, lines) ==
    LET r == receipt_loop_TC1(cat, lines, 1, <<>>, F(0), <<>>)
    IN  [receipt |-> r.receipt,
         total |-> IF r.receipt = <<>> THEN F(0)
                   ELSE r.receipt[Len(r.receipt)][4],
         errors |-> r.errors]

compute_receipt_TC1(cat, lines) ==
    receipt_loop_TC1(cat, lines, 1, <<>>, F(0), <<>>)

(***************************************************************************)
(* src/src/compute_sales.py                                                *)
(***************************************************************************)
PRODUCT_KEYS_src == <<"product", "Product", "title", "name", "item">>
PRICE_KEYS_src == <<"price", "Price", "cost", "unit_price", "unitPrice">>
QTY_KEYS_src == <<"quantity", "Quantity", "qty", "amount", "units">>
candidate_keys_src == <<"items", "records", "sales", "data">>

\* dict.get(key): None when the key is absent.
dict_get(obj, key) == IF HasKey(obj, key) THEN Get(obj, key) ELSE Null

iter_records_src(obj) ==
    IF IsList(obj) THEN obj[2]
    ELSE IF IsDict(obj)
    THEN LET hits == {i \in 1..Len(candidate_keys_src) :
                        IsList(dict_get(obj, candidate_keys_src[i]))}
         IN  IF hits # {}
             THEN dict_get(obj, candidate_keys_src[
                      CHOOSE i \in hits : \A j \in hits : i <= j])[2]
             ELSE <<obj>>
    ELSE <<>>

RECURSIVE catalogue_loop_src(_, _, _, _)
catalogue_loop_src(records, idx, cat, errors) ==
    IF idx > Len(records) THEN [catalogue |-> cat, errors |-> errors]
    ELSE
    LET record == records[idx]
        product == first_present(record, PRODUCT_KEYS_src)
        price == first_present(record, PRICE_KEYS_src)
        p_val == to_float(price)
    IN  IF ~IsDict(record)
        THEN catalogue_loop_src(records, idx + 1, cat,
                 Append(errors, Err("Catalogue", idx, "record", <<>>)))
        ELSE IF Blank(product)
        THEN catalogue_loop_src(records, idx + 1, cat,
                 Append(errors, Err("Catalogue", idx, "product", <<product>>)))
        ELSE IF p_val = None \/ Lt0(p_val)
        THEN catalogue_loop_src(records, idx + 1, cat,
                 Append(errors, Err("Catalogue", idx, "price", <<price>>)))
        ELSE catalogue_loop_src(records, idx + 1,
                 Put(cat, strip(product[2]), p_val), errors)

build_catalogue_src(raw) ==
    LET pass == catalogue_loop_src(iter_records_src(raw), 1, EmptyDict, <<>>)
    IN  [catalogue |-> pass.catalogue,
         errors |-> IF DOMAIN pass.catalogue = {}
                    THEN Append(pass.errors, Err("", 0, "no_catalogue", <<>>))
                    ELSE pass.errors]

RECURSIVE sales_loop_src(_, _, _, _)
sales_loop_src(records, idx, lines, errors) ==
    IF idx > Len(records) THEN [lines |-> lines, errors |-> errors]
    ELSE
    LET record == records[idx]
        product == first_present(record, PRODUCT_KEYS_src)
        qty == first_present(record, QTY_KEYS_src)
        qty_val == to_float(qty)
    IN  IF ~IsDict(record)
        THEN sales_loop_src(records, idx + 1, lines,
                 Append(errors, Err("Sales", idx, "record", <<>>)))
        ELSE IF Blank(product)
        THEN sales_loop_src(records, idx + 1, lines,
                 Append(errors, Err("Sales", idx, "product", <<product>>)))
        ELSE IF qty_val = None
        THEN sales_loop_src(records, idx + 1, lines,
                 Append(errors, Err("Sales", idx, "quantity", <<qty>>)))
        ELSE sales_loop_src(records, idx + 1,
                 Append(lines, SaleLine(strip(product[2]), qty_val)), errors)

build_sales_src(raw) ==
    LET pass == sales_loop_src(iter_records_src(raw), 1, <<>>, <<>>)
    IN  [lines |-> pass.lines,
         errors |-> IF pass.lines = <<>>
                    THEN Append(pass.errors, Err("", 0, "no_sales", <<>>))
                    ELSE pass.errors]

RECURSIVE receipt_loop_src(_, _, _, _, _, _)
receipt_loop_src(cat, lines, idx, rcpt, tot, errors) ==
    IF idx > Len(lines)
    THEN [receipt |-> rcpt, total |-> tot, errors |-> errors]
    ELSE
    LET sale == lines[idx]
    IN  IF Le0(sale.quantity)
        THEN receipt_loop_src(cat, lines, idx + 1, rcpt, tot,
                 Append(errors, Err("Sales", idx, "non_positive",
                                    <<sale.quantity>>)))
        ELSE IF sale.product \notin DOMAIN cat
        THEN receipt_loop_src(cat, lines, idx + 1, rcpt, tot,
                 Append(errors, Err("Sales", idx, "not_in_catalogue",
                                    <<Str(sale.product)>>)))
        ELSE LET unit_price == cat[sale.product]
                 subtotal == Mul(unit_price, sale.quantity)
             IN  receipt_loop_src(cat, lines, idx + 1,
                     Append(rcpt, <<sale.product, sale.quantity, unit_price,
                                    subtotal>>),
                     Add(tot, subtotal), errors)

compute_receipt_src(cat, lines) ==
    receipt_loop_src(cat, lines, 1, <<>>, F(0), <<>>)

(***************************************************************************)
(* The two copies behind one name each, chosen by impl.                    *)
(***************************************************************************)
Impls == {"computeSales", "compute_sales"}
PRODUCT_KEYS(i) == IF i = "computeSales" THEN PRODUCT_KEYS_TC1
                   ELSE PRODUCT_KEYS_src
PRICE_KEYS(i) == IF i = "computeSales" THEN PRICE_KEYS_TC1 ELSE PRICE_KEYS_src
QTY_KEYS(i) == IF i = "computeSales" THEN QTY_KEYS_TC1 ELSE QTY_KEYS_src
iter_records(i, obj) == IF i = "computeSales" THEN iter_records_TC1(obj)
                        ELSE iter_records_src(obj)
build_catalogue(i, raw) == IF i = "computeSales" THEN build_catalogue_TC1(raw)
                           ELSE build_catalogue_src(raw)
build_sales(i, raw) == IF i = "computeSales" THEN build_sales_TC1(raw)
                       ELSE build_sales_src(raw)
compute_receipt(i, cat, lines) ==
    IF i = "computeSales" THEN compute_receipt_TC1(cat, lines)
    ELSE compute_receipt_src(cat, lines)

(***************************************************************************)
(* The inputs: the decoded product file and the decoded sales file.        *)
(***************************************************************************)
MaxRecords == 2
MaxEntries == 2

SeqsUpTo(S, n) == UNION {[1..k -> S] : k \in 0..n}
DistinctKeys(items) ==
    \A i, j \in 1..Len(items) : i # j => items[i][1] # items[j][1]
\* A dict's optional entry: absent, or key k with a value of Vs.
Field(k, Vs) == {<<>>} \cup {<< <<k, v>> >> : v \in Vs}
Scalars == {Null, Num(1), Str("A"), Bool(TRUE)}

\* Lists of product records (and one value that is no record).
CatCands ==
    {Dict(<< <<"product", n>>, <<"price", p>> >>) :
        n \in {Str("A"), Str(" A "), Str("B"), Str(" ")},
        p \in {Num(1), Num(2), Num(-1)}}
      \cup {Dict(<< <<"product", Str("A")>>, <<"price", Str("nan")>> >>),
            Num(1)}
CatLists == {List(l) : l \in SeqsUpTo(CatCands, MaxRecords)}

\* One record carrying several synonyms, not in their order of priority.
SynNames == {Str("A"), Str("B"), Str(" ")}
SynCatRecords ==
    {Dict(a \o b \o c \o d \o e) :
        a \in Field("name", SynNames), b \in Field("Name", SynNames),
        c \in Field("product", SynNames),
        d \in Field("cost", {Num(2), Num(-1)}),
        e \in Field("price", {Num(1), Str("bad")})}

\* The shapes: a record alone, in a list, under wrapper keys.
ShapeRecords ==
    {Dict(<< <<"name", Str("A")>>, <<"price", Num(1)>> >>),
     Dict(<< <<"name", Str(" A ")>>, <<"price", Str("2")>>,
             <<"data", List(<<>>)>> >>),
     Dict(<< <<"name", Str("B")>>, <<"price", Num(1)>>,
             <<"items", Num(5)>> >>),
     Dict(<< <<"name", Str("")>>, <<"price", Num(1)>> >>)}
WrapKeys == {"items", "Items", "records", "Data", "other"}
WrapValues ==
    {List(<<Dict(<< <<"name", Str("A")>>, <<"price", Num(1)>> >>)>>),
     List(<<Dict(<< <<"name", Str("B")>>, <<"price", Str("2")>> >>)>>),
     List(<<>>), Num(5)}
WrapDicts ==
    {Dict(items) : items \in
        {w \in UNION {[1..k -> WrapKeys \X WrapValues] : k \in 1..2} :
            DistinctKeys(w)}}

\* Flat mappings {"Pen": 2, ...}.
FlatKeys == {"Pen", " Pen", "Ink", ""}
FlatValues == {Num(2), Num(-1), Str("bad"), Str(" 1 ")}
FlatMaps ==
    {Dict(items) : items \in
        {w \in SeqsUpTo(FlatKeys \X FlatValues, MaxEntries) : DistinctKeys(w)}}

ProductInputs ==
    CatLists \cup {List(<<r>>) : r \in SynCatRecords \cup ShapeRecords}
      \cup ShapeRecords \cup WrapDicts \cup FlatMaps \cup Scalars
FewSalesInputs ==
    {List(<<>>),
     List(<<Dict(<< <<"product", Str("A")>>, <<"qty", Num(2)>> >>)>>)}
\* The scenarios: a product file and a sales file about "Pen".
PenProducts ==
    {List(<<Dict(<< <<"product", Str("Pen")>>, <<"price", Str("2")>> >>)>>),
     List(<<Dict(<< <<"product", Str("Pen")>>, <<"price", Num(-1)>> >>)>>),
     Dict(<< <<"Pen", Num(2)>>, <<"Ink", Str("bad")>> >>)}
PenSales ==
    {List(<<Dict(<< <<"product", Str("Pen")>>, <<"qty", Num(3)>> >>)>>),
     List(<<Dict(<< <<"product", Str("Pen")>>, <<"qty", Num(0)>> >>)>>)}

SaleCands ==
    {Dict(<< <<"product", n>>, <<"qty", q>> >>) :
        n \in {Str("A"), Str(" B "), Str("C")},
        q \in {Num(2), Num(0), Num(-1), Str("nan"), Str("bad")}} \cup {Num(1)}
SaleLists == {List(l) : l \in SeqsUpTo(SaleCands, MaxRecords)}
SynSaleRecords ==
    {Dict(a \o b \o c \o d) :
        a \in Field("name", {Str("A"), Str(" ")}),
        b \in Field("product", {Str("B"), Str(" ")}),
        c \in Field("qty", {Num(1), Str("bad")}),
        d \in Field("quantity", {Num(0), Null})}
SaleShapes ==
    {Dict(<< <<"product", Str("A")>>, <<"qty", Num(2)>> >>),
     Dict(<< <<"sales",
               List(<<Dict(<< <<"item", Str("B")>>,
                              <<"units", Str("2")>> >>)>>)>> >>),
     Dict(<< <<"Sales",
               List(<<Dict(<< <<"item", Str("B")>>,
                              <<"units", Num(0)>> >>)>>)>> >>)}
SalesInputs ==
    SaleLists \cup {List(<<r>>) : r \in SynSaleRecords} \cup SaleShapes
      \cup Scalars
FewProductInputs ==
    {List(<<>>),
     List(<<Dict(<< <<"product", Str("A")>>, <<"price", Num(1)>> >>),
            Dict(<< <<"product", Str("B")>>, <<"price", Str("2")>> >>)>>),
     List(<<Dict(<< <<"product", Str("A")>>, <<"price", Str("nan")>> >>)>>)}

(***************************************************************************)
(* main: build_catalogue, build_sales, compute_receipt, in this order.     *)
(***************************************************************************)
Init ==
    /\ impl \in Impls
    /\ \/ raw_products \in ProductInputs /\ raw_sales \in FewSalesInputs
       \/ raw_products \in FewProductInputs /\ raw_sales \in SalesInputs
       \/ raw_products \in PenProducts /\ raw_sales \in PenSales
    /\ pc = "start"
    /\ cat_records = <<>>
    /\ catalogue = EmptyDict
    /\ cat_errors = <<>>
    /\ sales_records = <<>>
    /\ sales = <<>>
    /\ sales_errors = <<>>
    /\ receipt = <<>>
    /\ total = F(0)
    /\ calc_errors = <<>>

MainBuildCatalogue ==
    /\ pc = "start"
    /\ LET r == build_catalogue(impl, raw_products)
       IN  /\ catalogue' = r.catalogue
           /\ cat_errors' = r.errors
    /\ cat_records' = iter_records(impl, raw_products)
    /\ pc' = "catalogue"
    /\ UNCHANGED <<impl, raw_products, raw_sales, sales_records, sales,
                   sales_errors, receipt, total, calc_errors>>

MainBuildSales ==
    /\ pc = "catalogue"
    /\ LET r == build_sales(impl, raw_sales)
       IN  /\ sales' = r.lines
           /\ sales_errors' = r.errors
    /\ sales_records' = iter_records(impl, raw_sales)
    /\ pc' = "sales"
    /\ UNCHANGED <<impl, raw_products, raw_sales, cat_records, catalogue,
                   cat_errors, receipt, total, calc_errors>>

MainComputeReceipt ==
    /\ pc = "sales"
    /\ LET r == compute_receipt(impl, catalogue, sales)
       IN  /\ receipt' = r.receipt
           /\ total' = r.total
           /\ calc_errors' = r.errors
    /\ pc' = "done"
    /\ UNCHANGED <<impl, raw_products, raw_sales, cat_records, catalogue,
                   cat_errors, sales_records, sales, sales_errors>>

Next == MainBuildCatalogue \/ MainBuildSales \/ MainComputeReceipt

Spec == Init /\ [][Next]_vars

(***************************************************************************)
(* What the specification says of a record, a name, a price, a quantity.   *)
(***************************************************************************)
CatDone == pc \in {"catalogue", "sales", "done"}
SalesDone == pc \in {"sales", "done"}
Done == pc = "done"

OuterBlank(s) == \E t \in AllTexts : s = " " \o t \/ s = t \o " "

\* The value of the first key of the ordered synonym list the record holds.
RECURSIVE FirstOf(_, _)
FirstOf(record, keys) ==
    IF keys = <<>> THEN Null
    ELSE IF HasKey(record, Head(keys)) THEN Get(record, Head(keys))
    ELSE FirstOf(record, Tail(keys))

ValidName(v) == IsStr(v) /\ strip(v[2]) # ""
Coercible(v) == to_float(v) # None
Negative(x) == x[1] = "f" /\ x[2] < 0
NonPositive(x) == x[1] = "f" /\ x[2] <= 0
ValidPrice(v) == Coercible(v) /\ ~Negative(to_float(v))

NameIn(i, r) == FirstOf(r, PRODUCT_KEYS(i))
PriceIn(i, r) == FirstOf(r, PRICE_KEYS(i))
QtyIn(i, r) == FirstOf(r, QTY_KEYS(i))
ValidCatRecord(i, r) ==
    IsDict(r) /\ ValidName(NameIn(i, r)) /\ ValidPrice(PriceIn(i, r))
ValidSaleRecord(i, r) ==
    IsDict(r) /\ ValidName(NameIn(i, r)) /\ Coercible(QtyIn(i, r))

ErrorsAt(errors, idx) == SelectSeq(errors, LAMBDA e : e.idx = idx)
Max(S) == CHOOSE m \in S : \A x \in S : x <= m

(***************************************************************************)
(* C1: the catalogue build_catalogue returns has only non-empty keys       *)
(* without leading or trailing whitespace and only prices that are         *)
(* numbers >= 0, whichever pass inserted them.                             *)
(***************************************************************************)
C1_CatalogueInvariant ==
    CatDone =>
        \A k \in DOMAIN catalogue :
            /\ k # "" /\ ~OuterBlank(k)
            /\ catalogue[k][1] = "f" /\ catalogue[k][2] >= 0

(***************************************************************************)
(* C2: last-write-wins.  For every product name p for which some record    *)
(* is a valid entry (name compared after trimming), catalogue[p] is the    *)
(* price of the last such record in extraction order; the invalid records  *)
(* neither change nor remove it.                                           *)
(***************************************************************************)
ValidRecords ==
    {i \in 1..Len(cat_records) : ValidCatRecord(impl, cat_records[i])}
ValidNames ==
    {strip(NameIn(impl, cat_records[i])[2]) : i \in ValidRecords}
ValidFor(p) ==
    {i \in ValidRecords : strip(NameIn(impl, cat_records[i])[2]) = p}

C2_LastWriteWins ==
    CatDone =>
        \A p \in ValidNames :
            /\ p \in DOMAIN catalogue
            /\ catalogue[p] =
                   to_float(PriceIn(impl, cat_records[Max(ValidFor(p))]))

\* Two valid records for "A" with different prices, the later one padded.
C2_Witness ==
    /\ CatDone
    /\ Len(cat_records) = 2
    /\ ValidFor("A") = {1, 2}
    /\ NameIn(impl, cat_records[2]) = Str(" A ")
    /\ to_float(PriceIn(impl, cat_records[1])) = F(1)
    /\ catalogue["A"] = F(2)

(***************************************************************************)
(* C3: every receipt line is (product, quantity, unit_price, subtotal)     *)
(* with unit_price = catalogue[product] and subtotal = unit_price x        *)
(* quantity; the total is the sum of the subtotals taken in order (0 for   *)
(* an empty receipt); the lines are the accepted sale lines in their       *)
(* order, repeated products not merged.                                    *)
(***************************************************************************)
RECURSIVE SumSubtotals(_, _)
SumSubtotals(lines, n) ==
    IF n = 0 THEN F(0) ELSE Add(SumSubtotals(lines, n - 1), lines[n][4])

Accepted(sale) ==
    ~NonPositive(sale.quantity) /\ sale.product \in DOMAIN catalogue
AcceptedSales == SelectSeq(sales, Accepted)

C3_ReceiptArithmetic ==
    Done =>
        /\ \A n \in 1..Len(receipt) :
               /\ receipt[n][1] \in DOMAIN catalogue
               /\ receipt[n][3] = catalogue[receipt[n][1]]
               /\ receipt[n][4] = Mul(receipt[n][3], receipt[n][2])
        /\ total = SumSubtotals(receipt, Len(receipt))
        /\ Len(receipt) = Len(AcceptedSales)
        /\ \A n \in 1..Len(receipt) :
               /\ receipt[n][1] = AcceptedSales[n].product
               /\ receipt[n][2] = AcceptedSales[n].quantity

\* The same product sold twice: two lines, and a total that adds both.
C3_Witness ==
    /\ Done
    /\ Len(receipt) = 2
    /\ receipt[1][1] = receipt[2][1]
    /\ receipt[1][4] = F(2) /\ receipt[2][4] = F(2)
    /\ total = F(4)

(***************************************************************************)
(* C4: a sale line with quantity <= 0 or with a product absent from the    *)
(* catalogue gives no receipt line, nothing in the total and exactly one   *)
(* error (the quantity error when both hold); every other sale line gives  *)
(* one receipt line and no error; len(receipt) + len(errors) = len(sales). *)
(***************************************************************************)
RECURSIVE AcceptedTotal(_)
AcceptedTotal(n) ==
    IF n = 0 THEN F(0)
    ELSE IF Accepted(sales[n])
    THEN Add(AcceptedTotal(n - 1),
             Mul(catalogue[sales[n].product], sales[n].quantity))
    ELSE AcceptedTotal(n - 1)

C4_RejectedLines ==
    Done =>
        /\ Len(receipt) + Len(calc_errors) = Len(sales)
        /\ Len(receipt) = Len(AcceptedSales)
        /\ total = AcceptedTotal(Len(sales))
        /\ \A e \in 1..Len(calc_errors) : calc_errors[e].idx \in 1..Len(sales)
        /\ \A n \in 1..Len(sales) :
               LET errs == ErrorsAt(calc_errors, n)
               IN  IF NonPositive(sales[n].quantity)
                   THEN Len(errs) = 1 /\ errs[1].kind = "non_positive"
                   ELSE IF sales[n].product \notin DOMAIN catalogue
                   THEN Len(errs) = 1 /\ errs[1].kind = "not_in_catalogue"
                   ELSE errs = <<>>

\* A line with quantity 0 whose product is not in the catalogue either,
\* beside an accepted line.
C4_Witness ==
    /\ Done
    /\ Len(sales) = 2
    /\ Len(receipt) = 1
    /\ \E n \in 1..2 :
           /\ sales[n].quantity = F(0)
           /\ sales[n].product \notin DOMAIN catalogue
           /\ Len(ErrorsAt(calc_errors, n)) = 1

(***************************************************************************)
(* C5: extraction is format-agnostic.  For a record r that is a valid      *)
(* catalogue entry, build_catalogue of [r], of {"items": [r]} and of r     *)
(* itself return the same one-entry catalogue (trimmed name -> price) and  *)
(* the same empty error list.                                              *)
(***************************************************************************)
OneEntry(i, r) ==
    [k \in {strip(NameIn(i, r)[2])} |-> to_float(PriceIn(i, r))]
SameAsListAndWrapped(i, r) ==
    /\ catalogue = OneEntry(i, r) /\ cat_errors = <<>>
    /\ build_catalogue(i, List(<<r>>)) =
           [catalogue |-> OneEntry(i, r), errors |-> <<>>]
    /\ build_catalogue(i, Dict(<< <<"items", List(<<r>>)>> >>)) =
           [catalogue |-> OneEntry(i, r), errors |-> <<>>]

C5_FormatAgnostic_Original ==
    (CatDone /\ ValidCatRecord(impl, raw_products)) =>
        SameAsListAndWrapped(impl, raw_products)

\* A wrapper key of the record that holds a sequence is taken as the
\* wrapper of the record list.
HoldsWrappedList(r) ==
    \E k \in {"items", "Items", "records", "Records", "sales", "Sales",
              "data", "Data"} : HasKey(r, k) /\ IsList(Get(r, k))

\* C5, amended: the same, for a valid record r none of whose wrapper keys
\* holds a sequence.
C5_FormatAgnostic ==
    (CatDone /\ ValidCatRecord(impl, raw_products)
       /\ ~HoldsWrappedList(raw_products)) =>
        SameAsListAndWrapped(impl, raw_products)

\* The single object {"name": "B", "price": 1, "items": 5}: a wrapper key
\* that holds no sequence.
C5_Witness ==
    /\ CatDone
    /\ ValidCatRecord(impl, raw_products)
    /\ HasKey(raw_products, "items")
    /\ ~HoldsWrappedList(raw_products)
    /\ catalogue = [k \in {"B"} |-> F(1)]

(***************************************************************************)
(* C6: the flat-mapping fallback.  When no record is a valid entry and     *)
(* raw is a mapping, the catalogue is exactly the entries of raw whose     *)
(* value coerces to a number >= 0 (key -> value as a number), and the      *)
(* fallback emits no error; when a record is a valid entry, or raw is no   *)
(* mapping, the fallback is not applied.  Keys are read as the data model  *)
(* has them, trimmed, the later of two entries with one trimmed key        *)
(* giving the price.                                                       *)
(***************************************************************************)
FlatEntries(raw) == {i \in 1..Len(raw[2]) : ValidPrice(raw[2][i][2])}

C6_FlatMapFallback ==
    CatDone =>
        IF ValidRecords = {} /\ IsDict(raw_products)
        THEN /\ catalogue =
                  [k \in {strip(raw_products[2][i][1]) :
                            i \in FlatEntries(raw_products)} |->
                      to_float(raw_products[2][
                          Max({i \in FlatEntries(raw_products) :
                                 strip(raw_products[2][i][1]) = k})][2])]
             /\ \A e \in 1..Len(cat_errors) :
                    \/ cat_errors[e].idx \in 1..Len(cat_records)
                    \/ DOMAIN catalogue = {}
        ELSE DOMAIN catalogue = ValidNames

(***************************************************************************)
(* C7: build_catalogue's error list holds the terminal "catalogue could    *)
(* not be built" error exactly once, last, if the catalogue is empty, and  *)
(* not at all otherwise; build_sales likewise with "no sales could be      *)
(* extracted" and its sale lines.  [{"product": "Pen", "price": -1}]       *)
(* gives an empty catalogue and two errors: the price error, then the      *)
(* terminal one.                                                           *)
(***************************************************************************)
Of(errors, kind) == {e \in 1..Len(errors) : errors[e].kind = kind}
PenMinusOne ==
    List(<<Dict(<< <<"product", Str("Pen")>>, <<"price", Num(-1)>> >>)>>)

C7_TerminalErrors ==
    SalesDone =>
        /\ Of(cat_errors, "no_catalogue") =
               IF DOMAIN catalogue = {} THEN {Len(cat_errors)} ELSE {}
        /\ Of(sales_errors, "no_sales") =
               IF sales = <<>> THEN {Len(sales_errors)} ELSE {}
        /\ DOMAIN catalogue = {} => Len(cat_errors) >= 1
        /\ sales = <<>> => Len(sales_errors) >= 1
        /\ raw_products = PenMinusOne =>
               /\ DOMAIN catalogue = {}
               /\ Len(cat_errors) = 2
               /\ cat_errors[1].kind = "price" /\ cat_errors[1].idx = 1
               /\ cat_errors[2].kind = "no_catalogue"

C7_Witness ==
    /\ SalesDone
    /\ raw_products = PenMinusOne
    /\ DOMAIN catalogue = {}
    /\ cat_errors[Len(cat_errors)].kind = "no_catalogue"
    /\ sales # <<>>
    /\ Of(sales_errors, "no_sales") = {}

(***************************************************************************)
(* C8: the resolution order of iter_records.  A sequence yields its        *)
(* elements; a mapping yields the elements of the value of the first       *)
(* wrapper key it holds, in the order items, Items, records, Records,      *)
(* sales, Sales, data, Data, provided that value is a sequence, a later    *)
(* wrapper key being used only when no earlier one is present; a mapping   *)
(* with no matching wrapper key yields itself; anything else nothing.      *)
(***************************************************************************)
WrapperOrder ==
    <<"items", "Items", "records", "Records", "sales", "Sales", "data", "Data">>
Extracted(obj) ==
    IF IsList(obj) THEN obj[2]
    ELSE IF IsDict(obj)
    THEN LET held == {i \in 1..Len(WrapperOrder) : HasKey(obj, WrapperOrder[i])}
             first == CHOOSE i \in held : \A j \in held : i <= j
         IN  IF held # {} /\ IsList(Get(obj, WrapperOrder[first]))
             THEN Get(obj, WrapperOrder[first])[2]
             ELSE <<obj>>
    ELSE <<>>

C8_ResolutionOrder ==
    /\ CatDone => cat_records = Extracted(raw_products)
    /\ SalesDone => sales_records = Extracted(raw_sales)

(***************************************************************************)
(* C9: first present key wins.  The product (price, quantity) of a record  *)
(* is the value of the first key of the synonym list that the record       *)
(* holds, valid or not.  A record whose product so found is no non-blank   *)
(* string gives exactly one error, the product error, and no entry, even   *)
(* when a later synonym holds a valid name or the price is invalid too;    *)
(* otherwise an invalid price (quantity) gives exactly one error.          *)
(***************************************************************************)
ValidSales ==
    {i \in 1..Len(sales_records) : ValidSaleRecord(impl, sales_records[i])}

C9_FirstPresentWins ==
    SalesDone =>
        /\ \A n \in 1..Len(cat_records) :
               LET r == cat_records[n]
                   errs == ErrorsAt(cat_errors, n)
               IN  IsDict(r) =>
                       IF ~ValidName(NameIn(impl, r))
                       THEN /\ Len(errs) = 1 /\ errs[1].kind = "product"
                            /\ errs[1].ref = <<NameIn(impl, r)>>
                       ELSE IF ~ValidPrice(PriceIn(impl, r))
                       THEN /\ Len(errs) = 1 /\ errs[1].kind = "price"
                            /\ errs[1].ref[Len(errs[1].ref)] = PriceIn(impl, r)
                       ELSE /\ errs = <<>>
                            /\ strip(NameIn(impl, r)[2]) \in DOMAIN catalogue
        /\ IsList(raw_products) => DOMAIN catalogue = ValidNames
        /\ \A n \in 1..Len(sales_records) :
               LET r == sales_records[n]
                   errs == ErrorsAt(sales_errors, n)
               IN  IsDict(r) =>
                       IF ~ValidName(NameIn(impl, r))
                       THEN /\ Len(errs) = 1 /\ errs[1].kind = "product"
                            /\ errs[1].ref = <<NameIn(impl, r)>>
                       ELSE IF ~Coercible(QtyIn(impl, r))
                       THEN /\ Len(errs) = 1 /\ errs[1].kind = "quantity"
                            /\ errs[1].ref[Len(errs[1].ref)] = QtyIn(impl, r)
                       ELSE errs = <<>>
        /\ Len(sales) = Cardinality(ValidSales)

\* One record: "name" holds "A", "product", of higher priority, holds a
\* blank, and the price is invalid as well.
C9_Witness ==
    /\ SalesDone
    /\ Len(cat_records) = 1
    /\ IsDict(cat_records[1])
    /\ HasKey(cat_records[1], "name")
    /\ Get(cat_records[1], "name") = Str("A")
    /\ HasKey(cat_records[1], "product")
    /\ Get(cat_records[1], "product") = Str(" ")
    /\ ~ValidPrice(PriceIn(impl, cat_records[1]))
    /\ Len(cat_errors) = 2
    /\ cat_errors[1].kind = "product"
    /\ DOMAIN catalogue = {}

(***************************************************************************)
(* C10: the sign check is deferred.  A sales record with a valid name and  *)
(* a quantity that coerces gives a SaleLine and no build_sales error,      *)
(* whatever the sign; one whose quantity does not coerce gives one         *)
(* build_sales error and no SaleLine.  Over the pipeline a record with     *)
(* quantity <= 0 gives exactly one error, from compute_receipt.            *)
(* [{"product": "Pen", "qty": 0}] against a catalogue with "Pen" gives no  *)
(* receipt line, total 0 and one quantity error.                           *)
(***************************************************************************)
RECURSIVE ExpectedLines(_)
ExpectedLines(n) ==
    IF n = 0 THEN <<>>
    ELSE IF ValidSaleRecord(impl, sales_records[n])
    THEN Append(ExpectedLines(n - 1),
                SaleLine(strip(NameIn(impl, sales_records[n])[2]),
                         to_float(QtyIn(impl, sales_records[n]))))
    ELSE ExpectedLines(n - 1)
PenZero ==
    List(<<Dict(<< <<"product", Str("Pen")>>, <<"qty", Num(0)>> >>)>>)

C10_DeferredSignCheck ==
    Done =>
        /\ sales = ExpectedLines(Len(sales_records))
        /\ \A n \in 1..Len(sales_records) :
               LET r == sales_records[n]
                   m == Cardinality({i \in ValidSales : i <= n})
               IN  (IsDict(r) /\ ValidName(NameIn(impl, r))) =>
                       IF ~Coercible(QtyIn(impl, r))
                       THEN /\ Len(ErrorsAt(sales_errors, n)) = 1
                            /\ ErrorsAt(sales_errors, n)[1].kind = "quantity"
                       ELSE /\ ErrorsAt(sales_errors, n) = <<>>
                            /\ NonPositive(to_float(QtyIn(impl, r))) =>
                                   /\ Len(ErrorsAt(calc_errors, m)) = 1
                                   /\ ErrorsAt(calc_errors, m)[1].kind =
                                          "non_positive"
        /\ (raw_sales = PenZero /\ "Pen" \in DOMAIN catalogue) =>
               /\ receipt = <<>> /\ total = F(0)
               /\ sales_errors = <<>>
               /\ Len(calc_errors) = 1
               /\ calc_errors[1].kind = "non_positive"

C10_Witness ==
    /\ Done
    /\ raw_sales = PenZero
    /\ "Pen" \in DOMAIN catalogue
    /\ sales = <<SaleLine("Pen", F(0))>>
    /\ Len(calc_errors) = 1

====
